---- MODULE Spec2Model ----
(***************************************************************************)
(* FECD Sync API: src/main.py (the /sincronizar endpoint and the           *)
(* background run process_sync) with the parts of src/utils/nfse.py and    *)
(* src/utils/onedrive.py that process_sync calls.                          *)
(*                                                                         *)
(* Python strings whose characters matter (dates, tax ids, the month       *)
(* reference, the certificate common name) are sequences of character      *)
(* codes (ASCII): "0".."9" are 48..57, "-" 45, "." 46, "/" 47, ":" 58,     *)
(* "T" 84.  Python's None is the model value None.  Strings that the code  *)
(* only passes around (names, document numbers, log texts) are TLA+        *)
(* strings.                                                                *)
(***************************************************************************)
EXTENDS Integers, Sequences, FiniteSets, TLC

None == "None"

\* ---------------------------------------------------------------- strings

Min2(a, b) == IF a <= b THEN a ELSE b

Max2(a, b) == IF a >= b THEN a ELSE b

\* the largest element of a non-empty set of integers: max([...])
MaxOf(S) == CHOOSE x \in S : \A y \in S : y <= x

\* the character of a decimal digit 0..9
Ch(d) == 48 + d

\* str.isdigit on one character
IsDigit(c) == c \in 48..57

\* ''.join(filter(str.isdigit, s))
OnlyDigits(s) == SelectSeq(s, IsDigit)

\* Python's <= on str: lexicographic on the character codes, a proper prefix
\* is smaller
RECURSIVE StrLE(_, _)
StrLE(a, b) ==
    IF a = <<>> THEN TRUE
    ELSE IF b = <<>> THEN FALSE
    ELSE IF Head(a) = Head(b) THEN StrLE(Tail(a), Tail(b))
    ELSE Head(a) < Head(b)

\* s[:10]
Slice10(s) == SubSeq(s, 1, Min2(10, Len(s)))

\* s.split(sep) for a one-character separator
RECURSIVE Split(_, _)
Split(s, sep) ==
    IF \A i \in 1..Len(s) : s[i] # sep THEN <<s>>
    ELSE LET i == CHOOSE k \in 1..Len(s) :
                      s[k] = sep /\ \A j \in 1..(k - 1) : s[j] # sep
         IN  <<SubSeq(s, 1, i - 1)>> \o Split(SubSeq(s, i + 1, Len(s)), sep)

\* int(s) succeeds on a non-empty string of digits
IsInt(s) == s # <<>> /\ \A i \in 1..Len(s) : IsDigit(s[i])

RECURSIVE StrToInt(_)
StrToInt(s) ==
    IF s = <<>> THEN 0
    ELSE 10 * StrToInt(SubSeq(s, 1, Len(s) - 1)) + (s[Len(s)] - 48)

\* f"{n:02d}" for 0 <= n <= 99
Fmt02(n) == <<Ch(n \div 10), Ch(n % 10)>>

\* f"{n:04d}" for 0 <= n <= 9999
Fmt04(n) ==
    <<Ch(n \div 1000), Ch((n \div 100) % 10), Ch((n \div 10) % 10), Ch(n % 10)>>

\* the text "YYYY-MM-DD" of a calendar date
IsoDate(y, m, d) == Fmt04(y) \o <<45>> \o Fmt02(m) \o <<45>> \o Fmt02(d)

\* calendar.monthrange(year, month)[1]
IsLeap(y) == y % 4 = 0 /\ (y % 100 # 0 \/ y % 400 = 0)

LastDay(y, m) ==
    IF m = 2 THEN (IF IsLeap(y) THEN 29 ELSE 28)
    ELSE IF m \in {4, 6, 9, 11} THEN 30 ELSE 31

\* main.py 84-88: the bounds of the month "MM/YYYY".  ok = FALSE stands for
\* the ValueError / IllegalMonthError that the unpacking, int() or
\* monthrange raise on any other text.
MonthBounds(mes) ==
    LET parts == Split(mes, 47)
    IN  IF Len(parts) # 2 THEN [ok |-> FALSE]
        ELSE LET mm == parts[1]
                 aaaa == parts[2]
             IN  IF ~(IsInt(mm) /\ IsInt(aaaa)) THEN [ok |-> FALSE]
                 ELSE IF StrToInt(mm) \notin 1..12 \/ StrToInt(aaaa) < 1
                      THEN [ok |-> FALSE]
                 ELSE [ok |-> TRUE,
                       ini |-> aaaa \o <<45>> \o mm \o <<45, 48, 49>>,
                       fim |-> aaaa \o <<45>> \o mm \o <<45>>
                                 \o Fmt02(LastDay(StrToInt(aaaa), StrToInt(mm)))]

\* the needle is a contiguous part of the haystack: Python's `in` on str
IsSubstr(needle, hay) ==
    \E i \in 1..(Len(hay) + 1) :
        /\ i + Len(needle) - 1 <= Len(hay)
        /\ SubSeq(hay, i, i + Len(needle) - 1) = needle

\* ------------------------------------------------------------ bounds

\* accepted triggers (background tasks) in one behaviour of the server
MaxTriggers == 2

\* runs in one behaviour of the server used one run at a time
MaxRuns == 1

\* NSU values the portal hands out are 0..MaxNSU
MaxNSU == 1

\* documents in one answer of the date-range search or of the SOAP call
MaxBatch == 2

\* calls of NFSeService methods followed through their PEM context
MaxCalls == 3

\* ------------------------------------------------- program constants

\* main.py 30: the run log keeps the last 50 entries
LogLimit == 50

\* main.py 99: max_iterations of the NSU loop
max_iterations == 20

\* main.py 115: a batch shorter than this ends the NSU loop
PageSize == 50

\* nfse.py 34: a taxpayer identifier has 14 digits
CnpjLen == 14

\* main.py 191: the rate written to every row, 5.0
iss_padrao == 5

\* -------------------------------------------------------- certificates

\* A PKCS#12 bundle as far as _extract_cnpj reads it: whether it is a
\* readable container, the passphrase that opens it, and the common name
\* of the subject.  Empty text stands for None (no identifier).
CnFecd == <<70, 58, 49, 50, 46, 51, 52, 53, 46, 54, 55, 56, 47, 48, 48, 48, 49, 45, 57, 48>>

CnShort == <<70, 58, 49, 50, 51>>

\* nfse.py 28-36: the first ":"-separated part of the common name whose
\* digits number 14
RECURSIVE FirstCnpj(_)
FirstCnpj(parts) ==
    IF parts = <<>> THEN <<>>
    ELSE IF Len(OnlyDigits(Head(parts))) = CnpjLen THEN OnlyDigits(Head(parts))
    ELSE FirstCnpj(Tail(parts))

\* nfse.py 23-38: NFSeService(pfx_data, pfx_password).cnpj; a bundle that
\* load_key_and_certificates cannot open raises, and the except leaves None
extract_cnpj(pfx_data, pfx_password) ==
    IF ~pfx_data.readable \/ pfx_data.senha # pfx_password THEN <<>>
    ELSE FirstCnpj(Split(pfx_data.cn, 58))

\* ------------------------------------------------------------ documents

\* One element of a LoteDFe as process_sync reads it.  xml: "none" when the
\* element has no xml_decoded, "bad" when the text is not well-formed XML,
\* "ok" otherwise; then the texts get_xml_text finds (main.py 144-161),
\* empty for None (vliq is the text of vLiq or vNF, main.py 158); pdf:
\* download_pdf (nfse.py 115-130) gets a PDF for the element's ChaveAcesso
\* (otherwise it returns None); serv: the free text of the service element
\* serv_node points at (main.py 141), empty when the payload has none.
Doc(xml, numero, data_emi, nome, cnpj, vliq, pdf, serv) ==
    [xml |-> xml, numero |-> numero, data_emi |-> data_emi,
     nome_tomador |-> nome, cnpj_tomador |-> cnpj, vliq |-> vliq, pdf |-> pdf,
     serv |-> serv]

\* "Obra 20260002", "Ref 99999999 obra" and "Consultoria"
ServObra == <<79, 98, 114, 97, 32, 50, 48, 50, 54, 48, 48, 48, 50>>

ServSemProjeto == <<82, 101, 102, 32, 57, 57, 57, 57, 57, 57, 57, 57, 32, 111, 98, 114, 97>>

ServSemCodigo == <<67, 111, 110, 115, 117, 108, 116, 111, 114, 105, 97>>

\* "150.00", "0", "0.00" and "1,50"
V150 == <<49, 53, 48, 46, 48, 48>>

V0 == <<48>>

V000 == <<48, 46, 48, 48>>

VRuim == <<49, 44, 53, 48>>

\* "T09:30"
Hora == <<84, 48, 57, 58, 51, 48>>

Cnpj11222 == <<49, 49, 50, 50, 50>>

Cnpj11222Fmt == <<49, 49, 46, 50, 50, 50>>

Cnpj33444 == <<51, 51, 52, 52, 52>>

DocCatalog ==
    << Doc("ok", "N1", IsoDate(2026, 2, 28), "ACME", Cnpj11222, V150, TRUE, ServObra),
       Doc("ok", "N2", IsoDate(2026, 3, 1) \o Hora, "ACME", Cnpj11222Fmt, V0, FALSE, ServSemProjeto),
       Doc("bad", None, <<>>, None, <<>>, <<>>, FALSE, <<>>),
       Doc("ok", "N4", IsoDate(2026, 2, 1) \o Hora, "BETA", <<>>, <<>>, TRUE, ServSemCodigo),
       Doc("ok", "N5", IsoDate(2026, 2, 15), None, Cnpj33444, V000, FALSE, <<>>),
       Doc("ok", "N6", <<>>, "ACME", Cnpj11222, V150, FALSE, ServObra),
       Doc("ok", "N7", IsoDate(2026, 1, 31) \o Hora, "GAMA", Cnpj33444, VRuim, TRUE, <<>>),
       Doc("none", None, <<>>, None, <<>>, <<>>, FALSE, <<>>) >>

DocIds == 1..Len(DocCatalog)

\* the catalogue entry without a payload
SemXml == Len(DocCatalog)

\* docs (main.py 78) is kept run-length encoded: an entry is a document of
\* the catalogue and the number of consecutive copies of it.  Only the
\* payload-less document is ever repeated (a page of them).
Entry(d, rep) == [doc |-> d, rep |-> rep]

RECURSIVE NumDocs(_)
NumDocs(entries) ==
    IF entries = <<>> THEN 0 ELSE Head(entries).rep + NumDocs(Tail(entries))

\* the documents an entry may repeat: handling them writes the log at most
Repetivel(d) == DocCatalog[d].xml \in {"none", "bad"}

\* the catalogue entry that is not well-formed XML
XmlRuim == CHOOSE d \in DocIds : DocCatalog[d].xml = "bad"

\* docs.extend(batch) on the encoding
Extend(docs, batch) ==
    IF docs # <<>> /\ batch # <<>>
       /\ docs[Len(docs)].doc = Head(batch).doc /\ Repetivel(Head(batch).doc)
    THEN SubSeq(docs, 1, Len(docs) - 1)
           \o <<Entry(Head(batch).doc, docs[Len(docs)].rep + Head(batch).rep)>>
           \o Tail(batch)
    ELSE docs \o batch

\* the LoteDFe lists the date-range search and the SOAP call may answer
Lotes ==
    UNION { { [i \in 1..n |-> Entry(f[i], 1)] : f \in [1..n -> DocIds] }
            : n \in 0..MaxBatch }

\* The answers of fetch_dfe that carry a LoteDFe: the list and the NSU of
\* its elements (nsus).  A short batch of one document, or a full page of
\* payload-less documents.
NsuLotes ==
    { [lote |-> <<Entry(d, 1)>>, nsus |-> {n}] : d \in DocIds, n \in 0..MaxNSU }
    \cup { [lote |-> <<Entry(SemXml, PageSize)>>, nsus |-> {n}] : n \in 0..MaxNSU }
    \cup { [lote |-> <<>>, nsus |-> {}] }

\* ---------------------------------------------------------------- state

VARIABLES
    SYNC_STATE,      \* main.py 18-25 (start_time is never written: left out)
    clientes_db,     \* the table "clientes": a sequence of rows, oldest first
    projetos_db,     \* the table "projetos"
    notas_db,        \* the table "notas": a set of rows, unique on (numero, tomador_id)
    onedrive_files,  \* the files of the file store: <<folder, name, extension>>
    onedrive_token,  \* onedrive.py 16-30: _get_token yields a token
    tasks,           \* the background tasks, one per accepted trigger
    response,        \* the last answer of POST /sincronizar
    pem_files,       \* nfse.py 42: the temporary .pem files on disk
    chamada          \* nfse.py 40-65: the NFSeService call under way, step by step

vars == <<SYNC_STATE, clientes_db, projetos_db, notas_db, onedrive_files,
          onedrive_token, tasks, response, pem_files, chamada>>

\* what no step of the handler or of process_sync changes: the project
\* registry, the file store's credentials, and the PEM files, since there a
\* call of an NFSeService method is one step, its context opened and closed
env == <<projetos_db, onedrive_token, pem_files, chamada>>

TaskIds == 1..MaxTriggers

\* the frame of one process_sync call: its arguments, its position (pc) and
\* its locals.  calls lists the NFSeService methods it has called, each
\* with the "success" of its answer (download_pdf: a PDF came); outcome
\* records, per entry of docs already handled, how the loop body left it;
\* nsu_seen is the largest NSU any answer of fetch_dfe has carried.
NoTask ==
    [pc |-> "free", mes |-> <<>>, doc_type |-> None, dt_inicio |-> <<>>,
     dt_fim |-> <<>>, clientes |-> <<>>, projetos |-> <<>>, docs |-> <<>>,
     idx |-> 1, importados_sucesso |-> 0, last_nsu |-> 0, iterations |-> 0,
     tomador_id |-> 0, calls |-> <<>>, outcome |-> <<>>, nsu_seen |-> 0]

\* what clients send
ALLOWED_TOKEN == "segredo"

\* "02/2026", "03/2026" and a month reference without a "/"
Mes02 == <<48, 50, 47, 50, 48, 50, 54>>

Mes03 == <<48, 51, 47, 50, 48, 50, 54>>

MesRuim == <<50, 48, 50, 54>>

\* the certificate bundle of the taxpayer, and the passphrase that opens it
PfxFecd == [readable |-> TRUE, senha |-> "s1", cn |-> CnFecd]

\* one POST /sincronizar: the fields of the form
Request(token, mes, senha, doc_type, data_inicio, data_fim, certificado) ==
    [token |-> token, mes_referencia |-> mes, senha_pfx |-> senha,
     doc_type |-> doc_type, data_inicio |-> data_inicio, data_fim |-> data_fim,
     certificado |-> certificado]

\* requests with the right token and a bundle that yields an identifier:
\* a month alone, a month with one date (the month is used), a month
\* reference without "/" alone and with the two dates of February
GoodRequests ==
    { Request(ALLOWED_TOKEN, Mes02, "s1", "nfse", <<>>, <<>>, PfxFecd),
      Request(ALLOWED_TOKEN, Mes03, "s1", "nfse", IsoDate(2026, 2, 1), <<>>, PfxFecd),
      Request(ALLOWED_TOKEN, MesRuim, "s1", "nfse", <<>>, <<>>, PfxFecd),
      Request(ALLOWED_TOKEN, MesRuim, "s1", "nfse", IsoDate(2026, 2, 1),
              IsoDate(2026, 2, 28), PfxFecd),
      Request(ALLOWED_TOKEN, Mes02, "s1", "nfe", <<>>, <<>>, PfxFecd) }

\* requests the endpoint refuses: a wrong token (and a wrong passphrase
\* with it), a wrong passphrase, an unreadable bundle, a subject without a
\* 14-digit identifier
BadRequests ==
    { Request("outro", Mes02, "s2", "nfe", <<>>, <<>>, PfxFecd),
      Request(ALLOWED_TOKEN, Mes02, "s2", "nfse", <<>>, <<>>, PfxFecd),
      Request(ALLOWED_TOKEN, Mes02, "s1", "nfse", <<>>, <<>>,
              [PfxFecd EXCEPT !.readable = FALSE]),
      Request(ALLOWED_TOKEN, Mes02, "s1", "nfe", <<>>, <<>>,
              [PfxFecd EXCEPT !.cn = CnShort]) }

\* the answer to a request: the status code, beside the credentials that
\* were posted
Response(code, token, senha_pfx, certificado) ==
    [code |-> code, token |-> token, senha_pfx |-> senha_pfx,
     certificado |-> certificado]

\* no call of an NFSeService method is under way.  fase: "fora" (outside
\* the context), "criado" (the temporary file exists, nfse.py 42-44),
\* "em_uso" (the PEM is written and the request is being made); path: the
\* name of the temporary file, 0 for none; abertos: the contexts opened so
\* far; feitas: how the calls made so far ended
SemChamada == [fase |-> "fora", m |-> None, path |-> 0, abertos |-> 0, feitas |-> <<>>]

\* the registry a deployment starts with
Clientes0 ==
    << [id |-> 1, nome_razao |-> "ACME", documento |-> <<57, 57>>, status |-> "Ativo"],
       [id |-> 2, nome_razao |-> "OUTRA", documento |-> Cnpj11222Fmt, status |-> "Ativo"] >>

\* "ADM-10000001" and "OBR-20260002"
CodigoAdm == <<65, 68, 77, 45, 49, 48, 48, 48, 48, 48, 48, 49>>

CodigoObra == <<79, 66, 82, 45, 50, 48, 50, 54, 48, 48, 48, 50>>

Projetos0 == << [id |-> 1, codigo |-> CodigoAdm], [id |-> 2, codigo |-> CodigoObra] >>

\* the process has started (main.py 18-25) beside stores that hold no
\* invoice yet; the registries are empty or filled
InitAny ==
    /\ SYNC_STATE = [status |-> "idle", total_imported |-> 0, logs |-> <<>>,
                     cnpj |-> <<>>, progress |-> 0]
    /\ clientes_db \in {<<>>, Clientes0}
    /\ projetos_db \in {<<>>, Projetos0}
    /\ notas_db = {}
    /\ onedrive_files = {}
    /\ onedrive_token \in BOOLEAN
    /\ tasks = [t \in TaskIds |-> NoTask]
    /\ response = Response(0, None, None, PfxFecd)
    /\ pem_files = {}
    /\ chamada = SemChamada

\* the same with both registries filled and a file store that takes uploads
Init ==
    InitAny /\ clientes_db = Clientes0 /\ projetos_db = Projetos0 /\ onedrive_token

\* the newest entry dropped on overflow
log_msg_descarta_novo(logs, msg) ==
    LET l == Append(logs, msg)
    IN  IF Len(l) > LogLimit THEN SubSeq(l, 1, LogLimit) ELSE l

\* main.py 27-32: log_msg on the list of log entries
log_msg(logs, msg) ==
    LET l == Append(logs, msg)
    IN  IF Len(l) > LogLimit THEN Tail(l) ELSE l

\* the messages msgs, n times over
Vezes(msgs, n) ==
    IF n = 0 \/ msgs = <<>> THEN <<>>
    ELSE [i \in 1..(n * Len(msgs)) |-> msgs[((i - 1) % Len(msgs)) + 1]]

\* several log_msg calls in a row, the first half of them and then the
\* second (the test in between has the first half computed before the
\* second is begun; no list of entries is longer than LogLimit)
RECURSIVE log_all(_, _)
log_all(logs, msgs) ==
    IF Len(msgs) = 0 THEN logs
    ELSE IF Len(msgs) = 1 THEN log_msg(logs, msgs[1])
    ELSE LET h == Len(msgs) \div 2
             first == log_all(logs, SubSeq(msgs, 1, h))
         IN  IF Len(first) > LogLimit THEN first
             ELSE log_all(first, SubSeq(msgs, h + 1, Len(msgs)))

\* the tasks scheduled so far
Accepted == {t \in TaskIds : tasks[t].pc # "free"}

\* the process_sync calls that have started and not returned
Active == {t \in TaskIds : tasks[t].pc \in {"load", "fetch", "nsu", "docs"}}

\* the run state reset before the request is validated
Rejeita_apos_reset(code, token, senha_pfx, certificado) ==
    /\ response' = Response(code, token, senha_pfx, certificado)
    /\ SYNC_STATE' = [SYNC_STATE EXCEPT !.status = "running", !.progress = 0,
                                        !.total_imported = 0, !.logs = <<>>]
    /\ UNCHANGED <<clientes_db, env, notas_db, onedrive_files, tasks>>

\* main.py 240 and 249: the HTTPException; nothing else happens
Rejeita(code, token, senha_pfx, certificado) ==
    /\ response' = Response(code, token, senha_pfx, certificado)
    /\ UNCHANGED <<SYNC_STATE, clientes_db, env, notas_db, onedrive_files, tasks>>

\* main.py 253-258: the run state of a request just accepted
estado_agendado(cnpj_detectado) ==
    [status |-> "running", progress |-> 0, total_imported |-> 0,
     logs |-> log_msg(<<>>, "agendada"), cnpj |-> cnpj_detectado]

\* main.py 251: background_tasks.add_task(process_sync, ...)
add_task(mes, doc_type, data_inicio, data_fim) ==
    [tasks EXCEPT ![Cardinality(Accepted) + 1] =
        [NoTask EXCEPT !.pc = "queued", !.mes = mes, !.doc_type = doc_type,
                       !.dt_inicio = data_inicio, !.dt_fim = data_fim]]

\* main.py 227-264: POST /sincronizar.  limit bounds the requests accepted
\* in one behaviour.
disparar_sincronizacao(token, mes_referencia, senha_pfx, doc_type, data_inicio, data_fim, certificado, limit) ==
    IF token # ALLOWED_TOKEN
    THEN Rejeita(403, token, senha_pfx, certificado)
    ELSE LET cnpj_detectado == extract_cnpj(certificado, senha_pfx)
         IN  IF cnpj_detectado = <<>>
             THEN Rejeita(400, token, senha_pfx, certificado)
             ELSE /\ Cardinality(Accepted) < limit
                  /\ tasks' = add_task(mes_referencia, doc_type, data_inicio, data_fim)
                  /\ SYNC_STATE' = estado_agendado(cnpj_detectado)
                  /\ response' = Response(200, token, senha_pfx, certificado)
                  /\ UNCHANGED <<clientes_db, env, notas_db, onedrive_files>>

\* the exception taken for the end of the run
RunError_como_fim(t) ==
    /\ SYNC_STATE' = [SYNC_STATE EXCEPT
                          !.status = "done",
                          !.progress = 100,
                          !.logs = log_msg(@, "finalizada")]
    /\ tasks' = [tasks EXCEPT ![t] = [NoTask EXCEPT !.pc = "done"]]
    /\ UNCHANGED <<clientes_db, env, notas_db, onedrive_files, response>>

\* main.py 219-221: the except of process_sync
RunError(t) ==
    /\ SYNC_STATE' = [SYNC_STATE EXCEPT
                          !.status = "error",
                          !.logs = log_msg(@, "erro_critico")]
    /\ tasks' = [tasks EXCEPT ![t] = [NoTask EXCEPT !.pc = "error"]]
    /\ UNCHANGED <<clientes_db, env, notas_db, onedrive_files, response>>

\* main.py 65-69: the task starts
Start(t) ==
    /\ tasks[t].pc = "queued"
    /\ SYNC_STATE' = [SYNC_STATE EXCEPT
                          !.logs = log_msg(@, "iniciando"),
                          !.status = "running",
                          !.progress = 5]
    /\ tasks' = [tasks EXCEPT ![t].pc = "load"]
    /\ UNCHANGED <<clientes_db, env, notas_db, onedrive_files, response>>

\* main.py 72-78: the two registry reads; either may raise
LoadRegistries(t) ==
    /\ tasks[t].pc = "load"
    /\ \E ok \in BOOLEAN :
          IF ok
          THEN /\ tasks' = [tasks EXCEPT ![t].pc = "fetch",
                                         ![t].clientes = clientes_db,
                                         ![t].projetos = projetos_db]
               /\ UNCHANGED <<SYNC_STATE, clientes_db, env, notas_db,
                              onedrive_files, response>>
          ELSE RunError(t)

\* one call of a method of NFSeService, and whether it succeeded
Call(m, ok, n) == [m |-> m, ok |-> ok, n |-> n]

\* main.py 83-88: the period of an nfse run; the month is used unless both
\* dates came with the request
Periodo(mes, dt_inicio, dt_fim) ==
    IF dt_inicio = <<>> \/ dt_fim = <<>> THEN MonthBounds(mes)
    ELSE [ok |-> TRUE, ini |-> dt_inicio, fim |-> dt_fim]

\* what search_by_date (nfse.py 132-173) and fetch_nfe (nfse.py 175-211)
\* return: a failure, or success with a LoteDFe that may be empty
LoteAnswers ==
    {[success |-> FALSE, lote |-> <<>>]}
    \cup {[success |-> TRUE, lote |-> l] : l \in Lotes}

\* what fetch_dfe (nfse.py 75-113) returns: a failure, success without data
\* (HTTP 204, or 404 NENHUM_DOCUMENTO_LOCALIZADO), or success with a LoteDFe
NsuAnswers ==
    {[success |-> FALSE, data |-> FALSE, lote |-> <<>>, nsus |-> {}],
     [success |-> TRUE, data |-> FALSE, lote |-> <<>>, nsus |-> {}]}
    \cup {[success |-> TRUE, data |-> TRUE, lote |-> b.lote, nsus |-> b.nsus]
          : b \in NsuLotes}

\* main.py 128: the fetch phase is over
ToDocs(logs) ==
    /\ SYNC_STATE' = [SYNC_STATE EXCEPT !.logs = log_all(@, logs),
                                        !.progress = 30]
    /\ UNCHANGED <<clientes_db, env, notas_db, onedrive_files, response>>

\* the fallback taken whatever the search answered
usa_busca_por_data_nunca(res_date) == FALSE

\* main.py 93: the answer of search_by_date is used: it succeeded and its
\* LoteDFe is not empty
usa_busca_por_data(res_date) == res_date.success /\ res_date.lote # <<>>

\* main.py 80-97 and 118-128: the first fetch strategy of the document class
Fetch(t, answers) ==
    /\ tasks[t].pc = "fetch"
    /\ LET T == tasks[t]
           per == Periodo(T.mes, T.dt_inicio, T.dt_fim)
       IN  IF T.doc_type = "nfse"
           THEN IF ~per.ok THEN RunError(t)
                ELSE \E res_date \in answers :
                       IF usa_busca_por_data(res_date)
                       THEN /\ tasks' = [tasks EXCEPT
                                   ![t].pc = "docs",
                                   ![t].dt_inicio = per.ini,
                                   ![t].dt_fim = per.fim,
                                   ![t].calls = Append(@, Call("search_by_date", res_date.success, NumDocs(res_date.lote))),
                                   ![t].docs = res_date.lote]
                            /\ ToDocs(<<"buscando_por_data", "encontradas_por_data">>)
                       ELSE /\ tasks' = [tasks EXCEPT
                                   ![t].pc = "nsu",
                                   ![t].dt_inicio = per.ini,
                                   ![t].dt_fim = per.fim,
                                   ![t].calls = Append(@, Call("search_by_date", res_date.success, NumDocs(res_date.lote))),
                                   ![t].last_nsu = 0,
                                   ![t].iterations = 0]
                            /\ SYNC_STATE' = [SYNC_STATE EXCEPT !.logs =
                                   log_all(@, <<"buscando_por_data", "tentando_loop_nsu">>)]
                            /\ UNCHANGED <<clientes_db, env, notas_db,
                                           onedrive_files, response>>
           ELSE \E res_nfe \in answers :
                  /\ tasks' = [tasks EXCEPT
                         ![t].pc = "docs",
                         ![t].calls = Append(@, Call("fetch_nfe", res_nfe.success, NumDocs(res_nfe.lote))),
                         ![t].docs = IF res_nfe.success THEN res_nfe.lote ELSE <<>>]
                  /\ ToDocs(<<"buscando_nfe",
                                 IF res_nfe.success THEN "encontrados_soap"
                                 ELSE "erro_sefaz">>)

\* main.py 113: the cursor after a batch whose elements carry the NSUs nsus
next_nsu(last_nsu, nsus) == MaxOf(nsus)

\* the loop without its ceiling
continua_loop_sem_teto(iterations, n) == n >= PageSize

\* main.py 115 and 101: after a batch of n documents in round iterations
\* the loop goes on: the batch is a full page and the ceiling is not reached
continua_loop(iterations, n) == n >= PageSize /\ iterations < max_iterations

\* main.py 101-116: one round of the NSU loop, with the loop test that
\* follows it
FetchNSU(t, answers) ==
    /\ tasks[t].pc = "nsu"
    /\ tasks[t].iterations < max_iterations
    /\ LET T == tasks[t]
       IN  \E res_nsu \in answers :
             IF ~res_nsu.success
             THEN /\ tasks' = [tasks EXCEPT ![t].pc = "docs",
                                            ![t].iterations = @ + 1,
                                            ![t].calls = Append(@, Call("fetch_dfe", res_nsu.success, NumDocs(res_nsu.lote)))]
                  /\ ToDocs(<<"fim_erro_nsu">>)
             ELSE IF ~res_nsu.data \/ res_nsu.lote = <<>>
             THEN /\ tasks' = [tasks EXCEPT ![t].pc = "docs",
                                            ![t].iterations = @ + 1,
                                            ![t].calls = Append(@, Call("fetch_dfe", res_nsu.success, NumDocs(res_nsu.lote)))]
                  /\ ToDocs(<<"fim_fila_nsu">>)
             ELSE LET more == continua_loop(T.iterations + 1, NumDocs(res_nsu.lote))
                  IN  /\ tasks' = [tasks EXCEPT
                             ![t].pc = IF more THEN "nsu" ELSE "docs",
                             ![t].iterations = @ + 1,
                             ![t].calls = Append(@, Call("fetch_dfe", res_nsu.success, NumDocs(res_nsu.lote))),
                             ![t].docs = Extend(@, res_nsu.lote),
                             ![t].last_nsu = next_nsu(@, res_nsu.nsus),
                             ![t].nsu_seen = Max2(@, MaxOf(res_nsu.nsus))]
                      /\ IF more
                         THEN /\ SYNC_STATE' = [SYNC_STATE EXCEPT
                                     !.logs = log_msg(@, "nsu_lidos")]
                              /\ UNCHANGED <<clientes_db, env, notas_db,
                                             onedrive_files, response>>
                         ELSE ToDocs(<<"nsu_lidos">>)

\* the end of the period taken as exclusive
fora_do_periodo_fim_exclusivo(dt_inicio, dt_fim, data_emi) ==
    LET emi_date == Slice10(data_emi)
    IN  ~(StrLE(dt_inicio, emi_date) /\ StrLE(emi_date, dt_fim) /\ emi_date # dt_fim)

\* main.py 149-151: the document's issue date lies outside the period
fora_do_periodo(dt_inicio, dt_fim, data_emi) ==
    LET emi_date == Slice10(data_emi)
    IN  ~(StrLE(dt_inicio, emi_date) /\ StrLE(emi_date, dt_fim))

\* main.py 148-156: what the filter of an nfse run does with a parsed
\* document: "keep", "drop_periodo", "drop_ano", or "raise" (the IndexError
\* of mes.split("/")[1] when the month reference has no "/")
filtro(mes, dt_inicio, dt_fim, data_emi) ==
    IF dt_inicio # <<>> /\ dt_fim # <<>> /\ data_emi # <<>>
    THEN IF fora_do_periodo(dt_inicio, dt_fim, data_emi) THEN "drop_periodo"
         ELSE "keep"
    ELSE IF Len(Split(mes, 47)) < 2 THEN "raise"
    ELSE IF ~IsSubstr(Split(mes, 47)[2], data_emi) THEN "drop_ano"
    ELSE "keep"

\* the tax ids compared as written, punctuation included
match_cliente_sem_limpar(clientes, cnpj_tomador) ==
    LET hits == {i \in 1..Len(clientes) :
                    cnpj_tomador # <<>> /\ cnpj_tomador = clientes[i].documento}
    IN  IF hits = {} THEN 0
        ELSE clientes[CHOOSE i \in hits : \A j \in hits : i <= j].id

\* main.py 167-172: the id of the first cached client whose documento has
\* the digits of the invoice's tax id; 0 stands for None
match_cliente(clientes, cnpj_tomador) ==
    LET clean_cnpj == OnlyDigits(cnpj_tomador)
        hits == {i \in 1..Len(clientes) :
                    /\ clean_cnpj # <<>>
                    /\ clean_cnpj = OnlyDigits(clientes[i].documento)}
    IN  IF hits = {} THEN 0
        ELSE clientes[CHOOSE i \in hits : \A j \in hits : i <= j].id

\* main.py 182: the project of every invoice; 0 stands for None
resolve_projeto(projetos) == IF projetos = <<>> THEN 0 ELSE projetos[1].id

\* main.py 158: float(text or 0) in hundredths, for the texts "digits" and
\* "digits.dd"; on any other text float raises ValueError (ok is FALSE)
valor_bruto_de(vliq) ==
    LET parts == Split(vliq, 46)
    IN  IF vliq = <<>> THEN [ok |-> TRUE, v |-> 0]
        ELSE IF Len(parts) = 1 /\ IsInt(parts[1])
        THEN [ok |-> TRUE, v |-> 100 * StrToInt(parts[1])]
        ELSE IF Len(parts) = 2 /\ IsInt(parts[1]) /\ IsInt(parts[2]) /\ Len(parts[2]) = 2
        THEN [ok |-> TRUE, v |-> 100 * StrToInt(parts[1]) + StrToInt(parts[2])]
        ELSE [ok |-> FALSE, v |-> 0]

\* the rate taken as 0 when there is nothing to tax
iss_da_nota_zero_sem_valor(valor_bruto) ==
    IF valor_bruto = 0 THEN 0 ELSE iss_padrao

\* main.py 191: "iss" of the row, whatever the document says
iss_da_nota(valor_bruto) == iss_padrao

\* the invoice written whenever the counterparty is resolved
pode_gravar_sem_projeto(tomador_id, projeto_id) == tomador_id # 0

\* main.py 184: the invoice is written
pode_gravar(tomador_id, projeto_id) == tomador_id # 0 /\ projeto_id # 0

\* the counter raised before the upsert is tried
conta_importado_antes(importados_sucesso, up_ok) == importados_sucesso + 1

\* main.py 196-197: importados_sucesso after the upsert, which raises
\* unless up_ok
conta_importado(importados_sucesso, up_ok) ==
    IF up_ok THEN importados_sucesso + 1 ELSE importados_sucesso

\* main.py 196: upsert(nota_db, on_conflict="numero,tomador_id")
upsert(notas, nota) ==
    {n \in notas : ~(n.numero = nota.numero /\ n.tomador_id = nota.tomador_id)}
    \cup {nota}

\* the files put whether or not the invoice was written
espelha_sem_gravar(gravada, token, folder, numero, pdf) ==
    IF token
    THEN {<<folder, numero, "xml">>} \cup (IF pdf THEN {<<folder, numero, "pdf">>} ELSE {})
    ELSE {}

\* main.py 200-204: the files the mirroring puts in the file store.  It is
\* reached only past the upsert (gravada); upload_file puts each file when
\* it gets a token (onedrive.py 32-53); pdf: the run is an nfse run and
\* download_pdf got a PDF
espelha(gravada, token, folder, numero, pdf) ==
    IF gravada /\ token
    THEN {<<folder, numero, "xml">>} \cup (IF pdf THEN {<<folder, numero, "pdf">>} ELSE {})
    ELSE {}

\* main.py 200: f"Sincronizacao-{mes.replace('/', '-')}", the prefix left out
folder_of(mes) == [i \in 1..Len(mes) |-> IF mes[i] = 47 THEN 45 ELSE mes[i]]

\* the new counterparty taken back when the registry has no project
vincula_cliente_desfaz(T, doc, novo_id, ins_ok) ==
    LET achado == match_cliente(T.clientes, doc.cnpj_tomador)
        criar == achado = 0 /\ doc.nome_tomador # None
        novo == [id |-> novo_id, nome_razao |-> doc.nome_tomador,
                 documento |-> doc.cnpj_tomador, status |-> "Ativo"]
        fica == criar /\ ins_ok /\ T.projetos # <<>>
    IN  [tomador_id |-> IF achado # 0 THEN achado
                        ELSE IF criar /\ ins_ok THEN novo_id ELSE 0,
         clientes |-> IF fica THEN Append(T.clientes, novo) ELSE T.clientes,
         insert |-> IF fica THEN <<novo>> ELSE <<>>]

\* main.py 166-180: the counterparty of the document.  The cached record
\* with its tax id if there is one; otherwise, when the document names the
\* counterparty, a record is inserted into clientes and, if the insert
\* answers with the row (ins_ok), its id is taken and the row is appended
\* to the cache; an insert that raises is passed over.  insert is what the
\* store receives.
vincula_cliente(T, doc, novo_id, ins_ok) ==
    LET achado == match_cliente(T.clientes, doc.cnpj_tomador)
        criar == achado = 0 /\ doc.nome_tomador # None
        novo == [id |-> novo_id, nome_razao |-> doc.nome_tomador,
                 documento |-> doc.cnpj_tomador, status |-> "Ativo"]
    IN  [tomador_id |-> IF achado # 0 THEN achado
                        ELSE IF criar /\ ins_ok THEN novo_id ELSE 0,
         clientes |-> IF criar /\ ins_ok THEN Append(T.clientes, novo) ELSE T.clientes,
         insert |-> IF criar /\ ins_ok THEN <<novo>> ELSE <<>>]

\* main.py 133-213: the body of the loop over docs for one document.  The
\* outbound calls answer as the arguments say: ins_ok the insert into
\* clientes, up_ok the upsert into notas, esp_ok that nothing raises in
\* the mirroring that follows it (main.py 200-204: encode, upload_file),
\* token whether upload_file (onedrive.py 32-53) gets a token: without one it
\* returns False, with one the file is put.  The result names every effect.
process_doc(T, doc, novo_id, ins_ok, up_ok, esp_ok, token) ==
    LET skip(out, msgs) ==
            [outcome |-> out, logs |-> msgs, clientes |-> T.clientes,
             tomador_id |-> T.tomador_id, importados |-> T.importados_sucesso,
             insert |-> <<>>, nota |-> <<>>, files |-> {}, pdf_call |-> FALSE]
        f == IF T.doc_type = "nfse"
             THEN filtro(T.mes, T.dt_inicio, T.dt_fim, doc.data_emi)
             ELSE "keep"
        valor == valor_bruto_de(doc.vliq)
        aviso == IF doc.nome_tomador = None THEN <<"aviso_sem_nome">> ELSE <<>>
        vinculo == vincula_cliente(T, doc, novo_id, ins_ok)
        tomador_id == vinculo.tomador_id
        clientes == vinculo.clientes
        insert == vinculo.insert
        projeto_id == resolve_projeto(T.projetos)
        nota_db == [numero |-> doc.numero,
                    data_emissao |-> Slice10(doc.data_emi),
                    tomador_id |-> tomador_id,
                    projeto_id |-> projeto_id,
                    valor |-> valor.v,
                    iss |-> iss_da_nota(valor.v),
                    tipo |-> IF T.doc_type = "nfse" THEN "Prestada" ELSE "Tomada"]
        folder == folder_of(T.mes)
    IN  IF doc.xml = "none" THEN skip("sem_xml", <<>>)
        ELSE IF doc.xml = "bad" THEN skip("erro", <<"erro_processar">>)
        ELSE IF f = "drop_periodo" THEN skip("fora", <<"ignorando_periodo">>)
        ELSE IF f = "drop_ano" THEN skip("fora", <<"ignorando_ano">>)
        ELSE IF f = "raise" THEN skip("erro", <<"erro_processar">>)
        ELSE IF ~valor.ok THEN skip("erro", <<"erro_processar">>)
        ELSE IF pode_gravar(tomador_id, projeto_id)
        THEN IF up_ok
             THEN [outcome |-> "importada",
                   logs |-> aviso \o <<"nota_importada">>
                            \o (IF esp_ok THEN <<>> ELSE <<"erro_inserir_nota">>),
                   clientes |-> clientes, insert |-> insert,
                   tomador_id |-> tomador_id,
                   importados |-> conta_importado(T.importados_sucesso, up_ok),
                   nota |-> <<nota_db>>,
                   files |-> IF esp_ok
                             THEN espelha(up_ok, token, folder, doc.numero,
                                          T.doc_type = "nfse" /\ doc.pdf)
                             ELSE {},
                   pdf_call |-> esp_ok /\ T.doc_type = "nfse"]
             ELSE [outcome |-> "erro_banco",
                   logs |-> aviso \o <<"erro_inserir_nota">>,
                   clientes |-> clientes, insert |-> insert,
                   tomador_id |-> tomador_id,
                   importados |-> conta_importado(T.importados_sucesso, up_ok),
                   nota |-> <<>>,
                   files |-> espelha(up_ok, token, folder, doc.numero,
                                     T.doc_type = "nfse" /\ doc.pdf),
                   pdf_call |-> FALSE]
        ELSE [outcome |-> "abortada",
              logs |-> aviso
                       \o (IF projeto_id = 0 THEN <<"abortada_sem_projeto">> ELSE <<>>)
                       \o (IF tomador_id = 0 THEN <<"abortada_sem_cliente">> ELSE <<>>),
              clientes |-> clientes, insert |-> insert,
              tomador_id |-> tomador_id, importados |-> T.importados_sucesso,
              nota |-> <<>>, files |-> {}, pdf_call |-> FALSE]

\* main.py 132-213: one iteration of the loop over docs
ProcessDoc(t) ==
    /\ tasks[t].pc = "docs"
    /\ tasks[t].idx <= Len(tasks[t].docs)
    /\ LET T == tasks[t]
           doc == DocCatalog[T.docs[T.idx].doc]
       IN  \E ins_ok, up_ok, esp_ok \in BOOLEAN :
             LET r == process_doc(T, doc, Len(clientes_db) + 1,
                                  ins_ok, up_ok, esp_ok, onedrive_token)
             IN  /\ tasks' = [tasks EXCEPT
                        ![t].idx = @ + 1,
                        ![t].clientes = r.clientes,
                        ![t].importados_sucesso = r.importados,
                        ![t].calls = IF r.pdf_call
                                     THEN Append(@, Call("download_pdf", doc.pdf, 0))
                                     ELSE @,
                        ![t].tomador_id = r.tomador_id,
                        ![t].outcome = Append(@, r.outcome)]
                 /\ clientes_db' = clientes_db \o r.insert
                 /\ notas_db' = IF r.nota = <<>> THEN notas_db
                                ELSE upsert(notas_db, r.nota[1])
                 /\ onedrive_files' = onedrive_files \cup r.files
                 /\ SYNC_STATE' = [SYNC_STATE EXCEPT !.logs =
                        log_all(@, Vezes(r.logs, T.docs[T.idx].rep))]
                 /\ UNCHANGED <<env, response>>

\* main.py 215-218: the run ends
Finish(t) ==
    /\ tasks[t].pc = "docs"
    /\ tasks[t].idx > Len(tasks[t].docs)
    /\ SYNC_STATE' = [SYNC_STATE EXCEPT
                          !.progress = 100,
                          !.status = "done",
                          !.total_imported = tasks[t].importados_sucesso,
                          !.logs = log_msg(@, "finalizada")]
    /\ tasks' = [tasks EXCEPT ![t] = [NoTask EXCEPT !.pc = "done"]]
    /\ UNCHANGED <<clientes_db, env, notas_db, onedrive_files, response>>

\* a client posts one of the requests reqs; limit bounds the requests
\* accepted in one behaviour
Trigger(reqs, limit) ==
    \E req \in reqs :
        disparar_sincronizacao(req.token, req.mes_referencia, req.senha_pfx, req.doc_type, req.data_inicio, req.data_fim, req.certificado, limit)

\* The answers of the portal when tasks run side by side: a failure, or
\* one document with a name and no tax id; the NSU loop gets no full page.
FewLoteAnswers ==
    {a \in LoteAnswers : ~a.success \/ a.lote = <<Entry(4, 1)>>}

FewNsuAnswers ==
    {a \in NsuAnswers :
        ~a.success \/ (a.lote = <<Entry(4, 1)>> /\ a.nsus = {MaxNSU})}

\* the requests posted when tasks run side by side
FewRequests ==
    {r \in GoodRequests : r.mes_referencia = Mes02 /\ r.data_inicio = <<>>}
    \cup BadRequests

\* The server as it is: a request is handled whenever it arrives, each
\* accepted request adds a background task, and the tasks run in threads of
\* their own.
Next ==
    \/ Trigger(FewRequests, MaxTriggers)
    \/ \E t \in TaskIds : Start(t)
    \/ \E t \in TaskIds : LoadRegistries(t)
    \/ \E t \in TaskIds : Fetch(t, FewLoteAnswers)
    \/ \E t \in TaskIds : FetchNSU(t, FewNsuAnswers)
    \/ \E t \in TaskIds : ProcessDoc(t)
    \/ \E t \in TaskIds : Finish(t)

Spec == Init /\ [][Next]_vars

\* no task is scheduled or running
Quiet == \A t \in TaskIds : tasks[t].pc \in {"free", "done", "error"}

\* The use the design assumes: a client posts the next request only after
\* the run of the last one has ended.  The portal answers with any LoteDFe.
NextSerial ==
    \/ Quiet /\ Trigger(GoodRequests, MaxRuns)
    \/ \E t \in TaskIds : Start(t)
    \/ \E t \in TaskIds : LoadRegistries(t)
    \/ \E t \in TaskIds : Fetch(t, LoteAnswers)
    \/ \E t \in TaskIds : FetchNSU(t, NsuAnswers)
    \/ \E t \in TaskIds : ProcessDoc(t)
    \/ \E t \in TaskIds : Finish(t)

SpecSerial == InitAny /\ [][NextSerial]_vars

\* Long runs: fetch_dfe answers a failure, a short batch of one invoice or
\* a full page of documents that do not parse, each of which is logged, so
\* that a run writes more log entries than the log keeps.  Requests come
\* one after the other, as many as MaxTriggers.
LongNsuAnswers ==
    {a \in NsuAnswers : ~a.success \/ (a.lote = <<Entry(4, 1)>> /\ a.nsus = {MaxNSU})}
    \cup {[success |-> TRUE, data |-> TRUE,
           lote |-> <<Entry(XmlRuim, PageSize)>>, nsus |-> {MaxNSU}]}

NextLong ==
    \/ Quiet /\ Trigger(FewRequests, MaxTriggers)
    \/ \E t \in TaskIds : Start(t)
    \/ \E t \in TaskIds : LoadRegistries(t)
    \/ \E t \in TaskIds : Fetch(t, FewLoteAnswers)
    \/ \E t \in TaskIds : FetchNSU(t, LongNsuAnswers)
    \/ \E t \in TaskIds : ProcessDoc(t)
    \/ \E t \in TaskIds : Finish(t)

SpecLong == Init /\ [][NextLong]_vars

\* Runs that go round the NSU loop: fetch_dfe answers a failure, a short
\* batch of one invoice, or a full page of elements without a payload,
\* which the document loop skips (main.py 132).  Requests come one after
\* the other, as many as MaxTriggers.
PaginasNsuAnswers ==
    {a \in NsuAnswers : ~a.success \/ (a.lote = <<Entry(4, 1)>> /\ a.nsus = {MaxNSU})}
    \cup {[success |-> TRUE, data |-> TRUE,
           lote |-> <<Entry(SemXml, PageSize)>>, nsus |-> {MaxNSU}]}

NextFair ==
    \/ Quiet /\ Trigger(FewRequests, MaxTriggers)
    \/ \E t \in TaskIds : Start(t)
    \/ \E t \in TaskIds : LoadRegistries(t)
    \/ \E t \in TaskIds : Fetch(t, FewLoteAnswers)
    \/ \E t \in TaskIds : FetchNSU(t, PaginasNsuAnswers)
    \/ \E t \in TaskIds : ProcessDoc(t)
    \/ \E t \in TaskIds : Finish(t)

\* The scheduling of a run: the thread pool gives every background task a
\* thread that keeps running (main.py 251), and each call the task makes
\* returns or raises (the requests of nfse.py carry timeout=30), so a step
\* of process_sync that can be taken is taken; nothing obliges a client to
\* post a request.
Escalonamento ==
    \A t \in TaskIds :
        /\ WF_vars(Start(t))
        /\ WF_vars(LoadRegistries(t))
        /\ WF_vars(Fetch(t, FewLoteAnswers))
        /\ WF_vars(FetchNSU(t, PaginasNsuAnswers))
        /\ WF_vars(ProcessDoc(t))
        /\ WF_vars(Finish(t))

SpecFair == Init /\ [][NextFair]_vars /\ Escalonamento

\* ---------------------------------------------- the PEM context of a call

\* the methods of NFSeService that open a PEM context (nfse.py 69, 85,
\* 118, 152, 196)
MetodosPem == {"test_connection", "fetch_dfe", "download_pdf", "search_by_date", "fetch_nfe"}

\* the finally of the context skipped when the body raised
apos_contexto_so_no_sucesso(files, path, saida) ==
    IF saida = "respondeu" THEN files \ {path} ELSE files

\* nfse.py 62-65: the finally of _create_pem_context, whichever way the
\* context is left (saida): the file is removed if it exists
apos_contexto(files, path, saida) == files \ {path}

\* nfse.py 42-44: a method enters its with block; the temporary file is
\* created under a name not in use
AbreContexto(m) ==
    /\ chamada.fase = "fora"
    /\ chamada.abertos < MaxCalls
    /\ chamada' = [chamada EXCEPT !.fase = "criado", !.m = m,
                                  !.path = chamada.abertos + 1,
                                  !.abertos = @ + 1]
    /\ pem_files' = pem_files \cup {chamada.abertos + 1}
    /\ UNCHANGED <<SYNC_STATE, clientes_db, projetos_db, notas_db, onedrive_files,
                   onedrive_token, tasks, response>>

\* nfse.py 46-60: the bundle is loaded and the key and certificates are
\* written to the file, then the context yields; if the bundle does not
\* load (or the write fails) the exception leaves the context
EscrevePem ==
    /\ chamada.fase = "criado"
    /\ \E ok \in BOOLEAN :
          IF ok
          THEN /\ chamada' = [chamada EXCEPT !.fase = "em_uso"]
               /\ UNCHANGED pem_files
          ELSE /\ chamada' = [chamada EXCEPT
                      !.fase = "fora", !.m = None, !.path = 0,
                      !.feitas = Append(@, <<chamada.m, "bundle_invalido">>)]
               /\ pem_files' = apos_contexto(pem_files, chamada.path, "bundle_invalido")
    /\ UNCHANGED <<SYNC_STATE, clientes_db, projetos_db, notas_db, onedrive_files,
                   onedrive_token, tasks, response>>

\* the request inside the with block (nfse.py 70, 86, 119-125, 153, 197)
\* returns a response or raises; either way the context is left
Requisicao ==
    /\ chamada.fase = "em_uso"
    /\ \E saida \in {"respondeu", "levantou"} :
          /\ chamada' = [chamada EXCEPT
                 !.fase = "fora", !.m = None, !.path = 0,
                 !.feitas = Append(@, <<chamada.m, saida>>)]
          /\ pem_files' = apos_contexto(pem_files, chamada.path, saida)
    /\ UNCHANGED <<SYNC_STATE, clientes_db, projetos_db, notas_db, onedrive_files,
                   onedrive_token, tasks, response>>

NextPem ==
    \/ \E m \in MetodosPem : AbreContexto(m)
    \/ EscrevePem
    \/ Requisicao

SpecPem == Init /\ [][NextPem]_vars

\* ------------------------------------------------------------- claims

\* the elements of a sequence
Range(q) == {q[i] : i \in 1..Len(q)}

\* task t handles the entry of docs at its idx in this step
Handles(t) ==
    /\ tasks[t].pc = "docs"
    /\ tasks[t].idx <= Len(tasks[t].docs)
    /\ tasks'[t].idx = tasks[t].idx + 1

\* the document task t handles in this step, and how the loop body leaves it
Handled(t) == DocCatalog[tasks[t].docs[tasks[t].idx].doc]

Left(t) == tasks'[t].outcome[Len(tasks'[t].outcome)]

\* the process_sync call of task t returns in this step
Returns(t) == tasks[t].pc \in {"load", "fetch", "nsu", "docs"} /\ tasks'[t].pc \in {"done", "error"}

\* C1: every document process_sync persists has exactly one row in the
\* notas store, however often it is processed (the documents of the
\* catalogue carry different numbers).
C1_OneRowPerDocument ==
    \A d \in DocIds :
        Cardinality({n \in notas_db : n.numero = DocCatalog[d].numero}) <= 1

\* C2: in the NSU loop the cursor last_nsu is the largest NSU observed in
\* the batches received so far in the run, so it never decreases.
C2_CursorIsMaxObserved ==
    \A t \in TaskIds :
        tasks[t].pc \in {"nsu", "docs"} => tasks[t].last_nsu = tasks[t].nsu_seen

\* C3: within one run a counterparty is inserted at most once: the in-run
\* cache never holds two records of the same counterparty (the same name
\* and the same tax id).
C3_CreatedAtMostOnce ==
    \A t \in TaskIds :
        \A i, j \in 1..Len(tasks[t].clientes) :
            (/\ i < j
             /\ tasks[t].clientes[i].nome_razao = tasks[t].clientes[j].nome_razao
             /\ tasks[t].clientes[i].documento = tasks[t].clientes[j].documento)
            => FALSE

\* the cached records whose documento has the digits of the tax id
SameTaxId(clientes, cnpj_tomador) ==
    {c \in Range(clientes) : OnlyDigits(c.documento) = OnlyDigits(cnpj_tomador)}

\* C4: when the invoice carries a tax id with digits and the in-run cache
\* holds a record whose documento has the same digits, reconciliation
\* resolves the invoice to the id of such a record, whatever the names are,
\* and no counterparty is created.
C4_TaxIdPriority ==
    [][\A t \in TaskIds :
          (/\ Handles(t)
           /\ Left(t) \in {"importada", "erro_banco", "abortada"}
           /\ OnlyDigits(Handled(t).cnpj_tomador) # <<>>
           /\ SameTaxId(tasks[t].clientes, Handled(t).cnpj_tomador) # {})
          => /\ clientes_db' = clientes_db
             /\ tasks'[t].clientes = tasks[t].clientes
             /\ \E c \in SameTaxId(tasks[t].clientes, Handled(t).cnpj_tomador) :
                    tasks'[t].tomador_id = c.id]_vars

\* C4 happens: the invoice of ACME with tax id 11222 was written for the
\* record whose documento is 11.222, past a record named ACME with another
\* tax id.
C4_Witness ==
    \E t \in TaskIds :
        /\ tasks[t].pc = "docs" /\ tasks[t].idx = 2
        /\ tasks[t].docs[1].doc = 1
        /\ tasks[t].outcome = <<"importada">>
        /\ tasks[t].clientes = Clientes0
        /\ tasks[t].tomador_id = 2
        /\ \E n \in notas_db : n.numero = "N1" /\ n.tomador_id = 2

\* the "importada" among the outcomes
RECURSIVE CountWritten(_)
CountWritten(outcome) ==
    IF outcome = <<>> THEN 0
    ELSE (IF Head(outcome) = "importada" THEN 1 ELSE 0) + CountWritten(Tail(outcome))

LastLog == SYNC_STATE'.logs[Len(SYNC_STATE'.logs)]

\* C5: a document that fails to parse, to reconcile or to be written is
\* logged and skipped, the loop goes on to the next document, and the run
\* ends in "done" once every document was handled, with total_imported the
\* number of documents whose invoice write succeeded.
C5_DocumentFailuresDoNotAbort ==
    [][\A t \in TaskIds :
          /\ Handles(t) =>
                /\ tasks'[t].pc = "docs"
                /\ Len(tasks'[t].outcome) = tasks[t].idx
                /\ Left(t) = "erro" => LastLog = "erro_processar"
                /\ Left(t) = "abortada" =>
                       LastLog \in {"abortada_sem_projeto", "abortada_sem_cliente"}
                /\ Left(t) = "erro_banco" => LastLog = "erro_inserir_nota"
                /\ Handled(t).xml = "bad" => Left(t) = "erro"
          /\ (tasks[t].pc = "docs" /\ tasks'[t].pc # "docs") =>
                /\ tasks[t].idx = Len(tasks[t].docs) + 1
                /\ Len(tasks[t].outcome) = Len(tasks[t].docs)
                /\ SYNC_STATE'.status = "done"
                /\ SYNC_STATE'.total_imported = CountWritten(tasks[t].outcome)]_vars

\* C5 happens: a run ended "done" with one imported invoice after a
\* document that did not parse and a later one that was written.
C5_Witness ==
    /\ SYNC_STATE.status = "done"
    /\ SYNC_STATE.total_imported = 1
    /\ \E i, j, k \in 1..Len(SYNC_STATE.logs) :
          /\ i < j /\ j < k
          /\ SYNC_STATE.logs[i] = "erro_processar"
          /\ SYNC_STATE.logs[j] = "nota_importada"
          /\ SYNC_STATE.logs[k] = "finalizada"
    /\ Cardinality(notas_db) = 1

\* the calendar date of a text that starts "YYYY-MM-DD", as a number
DateNum(s) ==
    StrToInt(SubSeq(s, 1, 4)) * 10000 + StrToInt(SubSeq(s, 6, 7)) * 100
        + StrToInt(SubSeq(s, 9, 10))

\* the issue date is a day of the period, both ends included
InPeriod(data_emi, dt_inicio, dt_fim) ==
    /\ Len(data_emi) >= 10
    /\ DateNum(dt_inicio) <= DateNum(data_emi)
    /\ DateNum(data_emi) <= DateNum(dt_fim)

\* C6: in an nfse run a parsed document goes on to reconciliation exactly
\* when its issue date is a day of the period in force, both ends included
\* (a document without issue date is not); so no invoice of an nfse run is
\* written with an issue date outside the period.
C6_PeriodFilter ==
    [][\A t \in TaskIds :
          (Handles(t) /\ tasks[t].doc_type = "nfse" /\ Handled(t).xml = "ok")
          => /\ Left(t) \in {"importada", "erro_banco", "abortada"}
                  <=> InPeriod(Handled(t).data_emi, tasks[t].dt_inicio, tasks[t].dt_fim)
             /\ \A n \in notas_db' \ notas_db :
                    /\ DateNum(tasks[t].dt_inicio) <= DateNum(n.data_emissao)
                    /\ DateNum(n.data_emissao) <= DateNum(tasks[t].dt_fim)]_vars

\* C6 happens: in a run for February 2026 the invoice issued on 2026-02-28
\* was written and the one issued on 2026-03-01 was dropped.
C6_Witness ==
    \E t \in TaskIds :
        /\ tasks[t].pc = "docs" /\ tasks[t].doc_type = "nfse"
        /\ tasks[t].dt_inicio = IsoDate(2026, 2, 1)
        /\ tasks[t].dt_fim = IsoDate(2026, 2, 28)
        /\ tasks[t].docs = <<Entry(1, 1), Entry(2, 1)>>
        /\ tasks[t].outcome = <<"importada", "fora">>
        /\ \E n \in notas_db : n.data_emissao = IsoDate(2026, 2, 28)
        /\ \A n \in notas_db : n.numero # "N2"

\* C7: every row of the notas store carries the id of a counterparty of
\* the clientes registry and the id of a project of the projetos registry;
\* with an empty project registry, or without a counterparty matched or
\* created, no row is written.
C7_RowsAreResolved ==
    \A n \in notas_db :
        /\ n.tomador_id # 0 /\ n.projeto_id # 0
        /\ \E c \in Range(clientes_db) : c.id = n.tomador_id
        /\ \E p \in Range(projetos_db) : p.id = n.projeto_id

\* C7 happens: with an empty project registry a document reached the write
\* decision with its counterparty resolved, and nothing was written.
C7_Witness ==
    /\ projetos_db = <<>>
    /\ notas_db = {}
    /\ \E t \in TaskIds :
          /\ tasks[t].pc = "docs"
          /\ tasks[t].outcome # <<>>
          /\ tasks[t].outcome[Len(tasks[t].outcome)] = "abortada"
          /\ tasks[t].tomador_id # 0

\* the bundle yields no taxpayer identifier with this passphrase
NoIdentifier(certificado, senha_pfx) ==
    \/ ~certificado.readable
    \/ certificado.senha # senha_pfx
    \/ \A part \in Range(Split(certificado.cn, 58)) : Len(OnlyDigits(part)) # CnpjLen

\* C8: a request with a wrong token is answered 403, one with the right
\* token whose bundle yields no taxpayer identifier is answered 400, and a
\* request answered 403 or 400 schedules no task, issues no call and leaves
\* the run state and the stores as they were.
C8_RejectedTriggerHasNoEffect ==
    [][response' # response =>
          /\ response'.token # ALLOWED_TOKEN => response'.code = 403
          /\ (/\ response'.token = ALLOWED_TOKEN
              /\ NoIdentifier(response'.certificado, response'.senha_pfx))
             => response'.code = 400
          /\ response'.code \in {400, 403} =>
                UNCHANGED <<SYNC_STATE, tasks, clientes_db, projetos_db, notas_db,
                            onedrive_files>>]_vars

\* C8 happens: a request whose bundle has no 14-digit identifier was
\* answered 400 while a run was under way.
C8_Witness ==
    /\ response.code = 400
    /\ response.certificado.cn = CnShort
    /\ SYNC_STATE.status = "running"
    /\ Len(SYNC_STATE.logs) > 1
    /\ Active # {}

\* the fetch strategies of a run were called and every call of them failed
AllFetchFailed(calls) ==
    LET fetches == {c \in Range(calls) :
                       c.m \in {"search_by_date", "fetch_dfe", "fetch_nfe"}}
    IN  fetches # {} /\ \A c \in fetches : ~c.ok

\* C9: a run whose fetch strategies all failed ends in status "error", not
\* "done".
C9_AllFetchesFailedIsError ==
    [][\A t \in TaskIds :
          (Returns(t) /\ AllFetchFailed(tasks[t].calls))
          => SYNC_STATE'.status = "error"]_vars

\* C10: at most one process_sync call is under way at any time.
C10_SingleFlight == Cardinality(Active) <= 1

\* this step is the acceptance of a trigger: a task was scheduled
AcceptStep == Cardinality(Accepted') > Cardinality(Accepted)

\* C11: but for the reset to 0 that an accepted trigger makes, no step
\* lowers SYNC_STATE.progress: every write of 5, 30 or 100 is at least the
\* value it replaces, whatever the interleaving of triggers and runs.
C11_ProgressMonotone ==
    [][AcceptStep \/ SYNC_STATE'.progress >= SYNC_STATE.progress]_vars

\* the month reference of the run of task t has its "/"
MesBemFormado(t) == Len(Split(tasks[t].mes, 47)) >= 2

\* C12: handling a parsed document whose value is 0 or absent does not
\* fail (the month reference being well formed), and the row written for
\* it carries the value 0 and the fixed rate 5.0, as every row of the store
\* does.
C12_TaxRateFallback ==
    [][\A t \in TaskIds :
          (/\ Handles(t)
           /\ Handled(t).xml = "ok"
           /\ Handled(t).vliq \in {<<>>, V0, V000})
          => /\ MesBemFormado(t) => Left(t) # "erro"
             /\ Left(t) = "importada" =>
                   \E n \in notas_db' :
                       /\ n.numero = Handled(t).numero
                       /\ n.tomador_id = tasks'[t].tomador_id
                       /\ n.valor = 0
                       /\ n.iss = iss_padrao
             /\ \A n \in notas_db' : n.iss = iss_padrao]_vars

\* C12 happens: the invoice N4, whose document has no value, is in the
\* store with value 0 and rate 5.0.
C12_Witness ==
    \E n \in notas_db : n.numero = "N4" /\ n.valor = 0 /\ n.iss = iss_padrao

\* the calls of the fetch strategies among the calls of a run, in order
IsFetchCall(c) == c.m \in {"search_by_date", "fetch_dfe", "fetch_nfe"}

FetchCalls(t) == SelectSeq(tasks[t].calls, IsFetchCall)

\* C13: the fetch calls of an nfse run are one search_by_date, first, then
\* fetch_dfe calls only, and only when that search failed or brought an
\* empty LoteDFe, never fetch_nfe; those of an nfe run are one fetch_nfe
\* and nothing else.  Once the fetch phase is over the first call was made.
C13_FetchOrder ==
    \A t \in TaskIds :
        LET F == FetchCalls(t)
        IN  /\ tasks[t].doc_type = "nfse" =>
                  /\ F # <<>> => F[1].m = "search_by_date"
                  /\ \A i \in 2..Len(F) : F[i].m = "fetch_dfe"
                  /\ Len(F) > 1 => ~F[1].ok \/ F[1].n = 0
                  /\ tasks[t].pc \in {"nsu", "docs"} => F # <<>>
            /\ tasks[t].doc_type = "nfe" =>
                  /\ Len(F) <= 1
                  /\ \A i \in 1..Len(F) : F[i].m = "fetch_nfe"
                  /\ tasks[t].pc = "docs" => Len(F) = 1

\* C13 happens: an nfse run whose search succeeded with an empty LoteDFe
\* went on to fetch_dfe and got its documents there.
C13_Witness ==
    \E t \in TaskIds :
        /\ tasks[t].doc_type = "nfse" /\ tasks[t].pc = "docs"
        /\ tasks[t].docs # <<>>
        /\ Len(FetchCalls(t)) = 2
        /\ FetchCalls(t)[1] = Call("search_by_date", TRUE, 0)
        /\ FetchCalls(t)[2].m = "fetch_dfe" /\ FetchCalls(t)[2].ok

\* the fetch_dfe calls of the run of task t, in order
IsDfeCall(c) == c.m = "fetch_dfe"

DfeCalls(t) == SelectSeq(tasks[t].calls, IsDfeCall)

\* C14: a run makes at most 20 fetch_dfe calls; every call but the last
\* one made so far succeeded and brought at least 50 documents, and while
\* the loop is still going so did the last one, and fewer than 20 calls
\* were made.
C14_NsuLoopBounded ==
    \A t \in TaskIds :
        LET D == DfeCalls(t)
        IN  /\ Len(D) <= max_iterations
            /\ Len(D) = tasks[t].iterations
            /\ \A i \in 1..(Len(D) - 1) : D[i].ok /\ D[i].n >= PageSize
            /\ tasks[t].pc = "nsu" =>
                  /\ Len(D) < max_iterations
                  /\ \A i \in 1..Len(D) : D[i].ok /\ D[i].n >= PageSize

\* C14 happens: the loop was left after 20 full pages.
C14_Witness ==
    \E t \in TaskIds :
        /\ tasks[t].pc = "docs"
        /\ Len(DfeCalls(t)) = max_iterations
        /\ \A i \in 1..max_iterations : DfeCalls(t)[i].ok /\ DfeCalls(t)[i].n >= PageSize
        /\ NumDocs(tasks[t].docs) = max_iterations * PageSize

\* C15: SYNC_STATE.status changes only along idle -> running,
\* running -> done, running -> error, done -> running and error -> running:
\* "done" and "error" are entered from "running" only.
C15_StatusTransitions ==
    [][SYNC_STATE'.status # SYNC_STATE.status =>
          \/ /\ SYNC_STATE'.status = "running"
             /\ SYNC_STATE.status \in {"idle", "done", "error"}
          \/ /\ SYNC_STATE'.status \in {"done", "error"}
             /\ SYNC_STATE.status = "running"]_vars

\* the last n elements of a sequence
LastN(q, n) == SubSeq(q, Max2(1, Len(q) - n + 1), Len(q))

\* the most log entries one step writes: one per document of the longest
\* list of documents, and a few around them
MaxAdded == max_iterations * PageSize + 3

RowOfHandled(t) ==
    {n \in notas_db' : n.numero = Handled(t).numero /\ n.tomador_id = tasks'[t].tomador_id}

\* C18: a step puts files in the file store, or asks for the PDF, only for
\* the document it handles and only when that document's upsert succeeded
\* in the same step; whenever the upsert succeeded, whether the mirroring
\* worked, failed or raised, the row is in the store, the document is
\* counted and the loop goes on; and no step removes the row of an invoice.
C18_MirrorAfterWrite ==
    [][\A t \in TaskIds : Handles(t) =>
          /\ onedrive_files' # onedrive_files =>
                /\ Left(t) = "importada"
                /\ RowOfHandled(t) # {}
                /\ \A f \in onedrive_files' \ onedrive_files :
                      f[1] = folder_of(tasks[t].mes) /\ f[2] = Handled(t).numero
          /\ Len(tasks'[t].calls) > Len(tasks[t].calls) => Left(t) = "importada"
          /\ Left(t) = "importada" =>
                /\ RowOfHandled(t) # {}
                /\ tasks'[t].importados_sucesso = tasks[t].importados_sucesso + 1
                /\ tasks'[t].pc = "docs"
          /\ onedrive_files \subseteq onedrive_files'
          /\ \A n \in notas_db : \E n2 \in notas_db' :
                n2.numero = n.numero /\ n2.tomador_id = n.tomador_id]_vars

\* C18 happens: the mirroring of N1 raised and the run went on to import
\* and mirror N4: both rows are in the store, both documents are counted,
\* and the file store holds files of N4 only.
C18_Witness ==
    \E t \in TaskIds :
        /\ tasks[t].pc = "docs"
        /\ tasks[t].docs = <<Entry(1, 1), Entry(4, 1)>>
        /\ tasks[t].outcome = <<"importada", "importada">>
        /\ tasks[t].importados_sucesso = 2
        /\ {n.numero : n \in notas_db} = {"N1", "N4"}
        /\ onedrive_files # {}
        /\ \A f \in onedrive_files : f[2] = "N4"

\* C19: a run makes no call before its registries are read; the run whose
\* registry read fails returns at once, with status "error", its critical
\* error logged, no call made, and no counterparty, invoice or file
\* written; and a run that has returned does nothing more.
C19_RegistryFailureEndsRun ==
    [][\A t \in TaskIds :
          /\ tasks[t].pc = "load" =>
                /\ tasks[t].calls = <<>>
                /\ tasks'[t].pc \in {"load", "fetch", "error"}
                /\ tasks'[t].pc = "fetch" =>
                      /\ tasks'[t].clientes = clientes_db
                      /\ tasks'[t].projetos = projetos_db
                /\ tasks'[t].pc = "error" =>
                      /\ SYNC_STATE'.status = "error"
                      /\ LastLog = "erro_critico"
                      /\ tasks'[t].calls = <<>>
                      /\ UNCHANGED <<clientes_db, notas_db, onedrive_files>>
          /\ tasks[t].pc \in {"done", "error"} => tasks'[t] = tasks[t]]_vars

\* C19 happens: a run ended in "error" right after it started, with the
\* stores as they were.
C19_Witness ==
    /\ SYNC_STATE.status = "error"
    /\ SYNC_STATE.logs = <<"agendada", "iniciando", "erro_critico">>
    /\ \E t \in TaskIds : tasks[t].pc = "error"
    /\ notas_db = {}
    /\ clientes_db \in {<<>>, Clientes0}
    /\ onedrive_files = {}

\* the positions of the cached records whose name matches the invoice's
\* counterparty name (names are matched whole here: an equal name is the
\* plainest case-insensitive substring match)
SameName(clientes, nome_tomador) ==
    {i \in 1..Len(clientes) : nome_tomador # None /\ clientes[i].nome_razao = nome_tomador}

\* C20: when the invoice has no tax id, or no cached record has its tax
\* id, and some cached record has the counterparty's name, reconciliation
\* resolves to the first such record and creates no counterparty.
C20_NameFallback ==
    [][\A t \in TaskIds :
          (/\ Handles(t)
           /\ Left(t) \in {"importada", "erro_banco", "abortada"}
           /\ \/ OnlyDigits(Handled(t).cnpj_tomador) = <<>>
              \/ SameTaxId(tasks[t].clientes, Handled(t).cnpj_tomador) = {}
           /\ SameName(tasks[t].clientes, Handled(t).nome_tomador) # {})
          => LET hits == SameName(tasks[t].clientes, Handled(t).nome_tomador)
                 first == CHOOSE i \in hits : \A j \in hits : i <= j
             IN  /\ tasks'[t].tomador_id = tasks[t].clientes[first].id
                 /\ clientes_db' = clientes_db]_vars

\* the first run of eight consecutive digits in a text, <<>> when it has none
CodigoNaDescricao(serv) ==
    LET starts == {i \in 1..Len(serv) :
                      /\ i + 7 <= Len(serv)
                      /\ \A k \in i..(i + 7) : IsDigit(serv[k])}
    IN  IF starts = {} THEN <<>>
        ELSE LET i == CHOOSE a \in starts : \A b \in starts : a <= b
             IN  SubSeq(serv, i, i + 7)

\* the registry projects whose code contains the code of the description
ProjetosDaDescricao(projetos, serv) ==
    {i \in 1..Len(projetos) :
        /\ CodigoNaDescricao(serv) # <<>>
        /\ IsSubstr(CodigoNaDescricao(serv), projetos[i].codigo)}

\* C21: the row written for a document references a project whose code
\* contains the 8-digit code of the document's service description; it
\* references the first project of the registry only when the description
\* has no such code or no project's code contains it.
C21_ProjectFollowsCode ==
    [][\A t \in TaskIds :
          (Handles(t) /\ Left(t) = "importada")
          => LET hits == ProjetosDaDescricao(tasks[t].projetos, Handled(t).serv)
             IN  \A n \in RowOfHandled(t) :
                    IF hits # {}
                    THEN \E i \in hits : n.projeto_id = tasks[t].projetos[i].id
                    ELSE n.projeto_id = tasks[t].projetos[1].id]_vars

\* C22: under fair scheduling, with every call returning or raising, each
\* accepted trigger's run ends: a task that was added returns, and the
\* step in which process_sync returns leaves SYNC_STATE.status at "done"
\* or "error", whatever the portal answered and whichever calls failed.
C22_AcceptedTriggerTerminates ==
    /\ \A t \in TaskIds :
          (tasks[t].pc = "queued") ~> (tasks[t].pc \in {"done", "error"})
    /\ [][\A t \in TaskIds :
             Returns(t) => SYNC_STATE'.status \in {"done", "error"}]_vars

\* C22 happens: one run has ended normally and another in the except
C22_Witness ==
    \E t, u \in TaskIds :
        /\ tasks[t].pc = "done"
        /\ tasks[u].pc = "error"
        /\ SYNC_STATE.status \in {"done", "error"}

\* C23: when a document that reaches reconciliation names its counterparty
\* and no cached record has its tax id, the step either creates nothing
\* and resolves no counterparty (the insert failed), or appends the new
\* record, under the document's name and tax id, to the clientes store and
\* to the cache of the run and resolves to it; this is so whether the
\* invoice is then written, refused for want of a project, or lost to a
\* failed upsert.  No step removes or changes a record of clientes.
C23_CreationIndependentOfInvoice ==
    [][/\ Len(clientes_db') >= Len(clientes_db)
       /\ SubSeq(clientes_db', 1, Len(clientes_db)) = clientes_db
       /\ \A t \in TaskIds :
             (/\ Handles(t)
              /\ Left(t) \in {"importada", "erro_banco", "abortada"}
              /\ Handled(t).nome_tomador # None
              /\ SameTaxId(tasks[t].clientes, Handled(t).cnpj_tomador) = {})
             => LET novo == [id |-> Len(clientes_db) + 1,
                             nome_razao |-> Handled(t).nome_tomador,
                             documento |-> Handled(t).cnpj_tomador,
                             status |-> "Ativo"]
                IN  \/ /\ tasks'[t].tomador_id = 0
                       /\ clientes_db' = clientes_db
                       /\ tasks'[t].clientes = tasks[t].clientes
                       /\ Left(t) = "abortada"
                    \/ /\ tasks'[t].tomador_id = novo.id
                       /\ clientes_db' = Append(clientes_db, novo)
                       /\ tasks'[t].clientes = Append(tasks[t].clientes, novo)
                       /\ Left(t) = "abortada" <=> tasks[t].projetos = <<>>]_vars

\* C23 happens: the first document of a run named a counterparty the empty
\* registry did not hold, the record was created, the upsert of the
\* invoice failed, and the record is in the store and in the cache.
C23_Witness ==
    \E t \in TaskIds :
        /\ tasks[t].pc = "docs"
        /\ tasks[t].outcome = <<"erro_banco">>
        /\ notas_db = {}
        /\ Len(clientes_db) = 1
        /\ tasks[t].clientes = clientes_db
        /\ tasks[t].tomador_id = clientes_db[1].id

====
